---- MODULE Spec2Model ----
(***************************************************************************)
(* Model of coq_jupyter/coqtop.py: the Coqtop session driver.  A session   *)
(* holds the committed position `tip` and drives an external coqidetop     *)
(* process through Add / Status / Edit_at / Goal commands.                 *)
(*                                                                         *)
(* Texts are sequences of one-character strings; rich text (the payload of *)
(* an error or a message) is a sequence of string tokens, so that the      *)
(* prefix and substring tests of the renderer are computed, not assumed.   *)
(* The external process is nondeterministic: it may accept or reject any   *)
(* command and may write feedback/message replies before and after the     *)
(* terminal value reply of a command.                                      *)
(***************************************************************************)
EXTENDS Integers, Sequences, FiniteSets, TLC

\* ------------------------------------------------------------------ bounds
\* longest input text handed to eval
MaxLen == 2
\* largest state id the process hands out
MaxId == 3
\* most feedback/message replies the process writes during a session
MaxOob == 1
\* most feedback/message replies the process writes during a single call
MaxDiag == 2
\* most eval / roll_back_to calls made on one session
MaxCalls == 2
\* most replies written at once for the executor on its own
MaxBuf == 2
\* most runs of the executor on its own
MaxExec == 2

\* ------------------------------------------------------------------ texts
\* characters an input text is drawn from
Alphabet == {".", "a", " "}

\* the characters of str.strip(" \t\n\r")
StripChars == {" ", "\t", "\n", "\r"}

RECURSIVE TextsOfLen(_)
TextsOfLen(n) ==
  IF n = 0 THEN {<<>>}
  ELSE {<<c>> \o t : c \in Alphabet, t \in TextsOfLen(n - 1)}

Texts == UNION {TextsOfLen(n) : n \in 0..MaxLen}

\* code.split("."): the pieces between the dots; always at least one piece
RECURSIVE SplitAcc(_, _, _)
SplitAcc(code, piece, pieces) ==
  IF code = <<>> THEN Append(pieces, piece)
  ELSE IF Head(code) = "." THEN SplitAcc(Tail(code), <<>>, Append(pieces, piece))
  ELSE SplitAcc(Tail(code), Append(piece, Head(code)), pieces)

Split(code) == SplitAcc(code, <<>>, <<>>)

\* s.strip(" \t\n\r")
RECURSIVE LStrip(_)
LStrip(s) ==
  IF s # <<>> /\ Head(s) \in StripChars THEN LStrip(Tail(s)) ELSE s

RECURSIVE RStrip(_)
RStrip(s) ==
  IF s # <<>> /\ s[Len(s)] \in StripChars THEN RStrip(SubSeq(s, 1, Len(s) - 1)) ELSE s

Strip(s) == RStrip(LStrip(s))

\* Sentences keeping every leftover that is not empty, whitespace included
Sentences_NoStrip(code) ==
  LET pieces   == Split(code)
      leftover == pieces[Len(pieces)]
      body     == [i \in 1..(Len(pieces) - 1) |-> Append(pieces[i], ".")]
  IN  IF leftover # <<>> THEN Append(body, leftover) ELSE body

\* Sentences without the leftover, whatever it holds
Sentences_DropLeftover(code) ==
  LET pieces == Split(code)
  IN  [i \in 1..(Len(pieces) - 1) |-> Append(pieces[i], ".")]

\* the deque of sentences eval builds from the code (lines 92..96)
Sentences(code) ==
  LET pieces   == Split(code)
      leftover == pieces[Len(pieces)]
      body     == [i \in 1..(Len(pieces) - 1) |-> Append(pieces[i], ".")]
  IN  IF Strip(leftover) # <<>> THEN Append(body, leftover) ELSE body

\* ---------------------------------------------------------------- replies
\* A reply is a record with a tag.  A value reply carries its outcome and the
\* parts of the payload the driver reads; the fields a kind of reply does not
\* have hold the None markers below.
NoId == 0
NoText == <<>>
NoMessage == [level |-> "", text |-> <<>>]
NoGoals == [some |-> FALSE, list |-> <<>>]

Value(val, state_id, union_id, richpp, proof, goals) ==
  [tag |-> "value", val |-> val, state_id |-> state_id, union_id |-> union_id,
   richpp |-> richpp, proof |-> proof, goals |-> goals]

\* a local variable no reply has been assigned to yet
Unbound == [Value("", NoId, NoId, NoText, "", NoGoals) EXCEPT !.tag = "unbound"]

\* reply.get("val") == "good"
_is_good(reply) == reply.val = "good"

\* the state id of a good Add reply: the one inside the union if there is
\* one, otherwise the one of the pair
_get_nexttip(reply) ==
  IF reply.union_id # NoId THEN reply.union_id ELSE reply.state_id

\* a fail value that carries a rich text
_has_error(reply) == reply.val = "fail" /\ reply.richpp # NoText

ERROR_PREFIX == "Error: "

_get_error_content(reply) ==
  IF Head(reply.richpp) = ERROR_PREFIX THEN reply.richpp
  ELSE <<ERROR_PREFIX>> \o reply.richpp

Contains(text, token) == \E i \in 1..Len(text) : text[i] = token

_is_end_of_input_error(reply) ==
  IF _is_good(reply) THEN FALSE
  ELSE LET error_content == _get_error_content(reply)
       IN  \/ Contains(error_content, "Anomaly") /\ Contains(error_content, "Stm.End_of_input")
           \/ Contains(error_content, "Anomaly")
              /\ Contains(error_content, "Invalid_argument(\"vernac_parse\")")

\* the message element of an out-of-band reply: the reply itself when its tag
\* is message, otherwise the message nested in it, if any
_unwrap_message(reply) == reply.message

_is_message(reply) == _unwrap_message(reply) # NoMessage

Capitalize(level) ==
  CASE level = "notice"  -> "Notice"
    [] level = "warning" -> "Warning"
    [] level = "info"    -> "Info"
    [] level = "error"   -> "Error"
    [] OTHER             -> level

_get_message_content(reply) ==
  LET message              == _unwrap_message(reply)
      message_content      == message.text
      message_level_prefix == Capitalize(message.level) \o ": "
  IN  IF message.level = "notice" \/ Head(message_content) = message_level_prefix
      THEN message_content
      ELSE <<message_level_prefix>> \o message_content

_is_proving(reply) == reply.proof # ""

_get_proof_name(reply) == reply.proof

_has_goals(reply) == reply.goals.some

\* a goal is a record [hyps, concl]; the rendering keeps the header, the
\* hypotheses of the first goal and one block per goal
_get_goals_content(reply) ==
  LET current_goals == reply.goals.list
      n == Len(current_goals)
  IN  IF n = 0 THEN <<"No more subgoals">>
      ELSE LET header == IF n = 1 THEN "1 subgoal" ELSE ToString(n) \o " subgoals"
               hyps   == current_goals[1].hyps
               blocks == [i \in 1..n |->
                            ToString(i) \o "/" \o ToString(n) \o " -----------\n"
                              \o current_goals[i].concl]
           IN  <<header>> \o hyps \o blocks

\* --------------------------------------------------------------- commands
AddCommand(sentence, state_id) == [cmd |-> "Add", text |-> sentence, state_id |-> state_id]
STATUS_COMMAND == [cmd |-> "Status", text |-> <<>>, state_id |-> NoId]
GOAL_COMMAND == [cmd |-> "Goal", text |-> <<>>, state_id |-> NoId]
EditAtCommand(state_id) == [cmd |-> "Edit_at", text |-> <<>>, state_id |-> state_id]

\* --------------------------------------------------------------- executor
\* The loop of _execute_command over the replies waiting in the stream:
\* a value reply ends it (raising when it is a fail that was not allowed),
\* any other reply is collected.
RECURSIVE ExecuteLoop(_, _, _)
ExecuteLoop(buffer, allow_fail, out_of_band_replies) ==
  LET reply == Head(buffer)
  IN  IF reply.tag = "value" /\ ~allow_fail /\ ~_is_good(reply)
      THEN [raised |-> TRUE, reply |-> reply,
            out_of_band_replies |-> out_of_band_replies, rest |-> Tail(buffer)]
      ELSE IF reply.tag = "value"
      THEN [raised |-> FALSE, reply |-> reply,
            out_of_band_replies |-> out_of_band_replies, rest |-> Tail(buffer)]
      ELSE ExecuteLoop(Tail(buffer), allow_fail, Append(out_of_band_replies, reply))

\* _execute_command raising on every fail value, allowed or not
_execute_command_NeverAllow(buffer, allow_fail) == ExecuteLoop(buffer, FALSE, <<>>)

\* _execute_command reading on past the value while replies are waiting
_execute_command_ReadAhead(buffer, allow_fail) ==
  LET result == ExecuteLoop(buffer, allow_fail, <<>>)
  IN  [result EXCEPT !.rest = <<>>]

_execute_command(buffer, allow_fail) == ExecuteLoop(buffer, allow_fail, <<>>)

\* ------------------------------------------------------ the external process
\* the state id the process returns to Init
InitId == 1

\* rich texts of the failures the process reports
ErrorTexts ==
  { <<"e">>,
    <<"Anomaly", "Stm.End_of_input">> }

Fail(richpp) == Value("fail", NoId, NoId, richpp, "", NoGoals)

\* what the process may do with a command, given its own tip and the next
\* state id it would hand out: the terminal value and its state afterwards
Outcomes(command, ptip, nid) ==
  CASE command.cmd = "Add" ->
         (IF nid <= MaxId
          THEN {[value |-> Value("good", nid, NoId, NoText, "", NoGoals),
                 procTip |-> nid, nextId |-> nid + 1]}
               \cup
               {[value |-> Value("good", nid, InitId, NoText, "", NoGoals),
                 procTip |-> InitId, nextId |-> nid + 1]}
          ELSE {})
         \cup
         {[value |-> Fail(e), procTip |-> ptip, nextId |-> nid] : e \in ErrorTexts}
    [] command.cmd = "Status" ->
         {[value |-> Value("good", NoId, NoId, NoText, proof, NoGoals),
           procTip |-> ptip, nextId |-> nid] : proof \in {"", "thm"}}
         \cup
         {[value |-> Fail(e), procTip |-> ptip, nextId |-> nid] : e \in ErrorTexts}
    [] command.cmd = "Edit_at" ->
         {[value |-> Value("good", NoId, NoId, NoText, "", NoGoals),
           procTip |-> command.state_id, nextId |-> nid],
          [value |-> Fail(<<"e">>), procTip |-> ptip, nextId |-> nid]}
    [] command.cmd = "Goal" ->
         {[value |-> Value("good", NoId, NoId, NoText, "", g),
           procTip |-> ptip, nextId |-> nid] :
            g \in {NoGoals,
                   [some |-> TRUE, list |-> <<>>],
                   [some |-> TRUE, list |-> <<[hyps |-> <<"H : nat">>, concl |-> "0 = 0"]>>]}}
         \cup
         {[value |-> Fail(<<"e">>), procTip |-> ptip, nextId |-> nid]}

\* the out-of-band replies the process may write: a feedback without a
\* message, a bare message, a message wrapped in a feedback
OobKinds == {"feedback", "message", "feedback_message"}

OobReply(kind, label) ==
  CASE kind = "feedback" -> [tag |-> "feedback", message |-> NoMessage]
    [] kind = "message" ->
         [tag |-> "message", message |-> [level |-> "notice", text |-> <<label>>]]
    [] kind = "feedback_message" ->
         [tag |-> "feedback", message |-> [level |-> "warning", text |-> <<label>>]]

RECURSIVE KindSeqs(_)
KindSeqs(n) ==
  IF n = 0 THEN {<<>>}
  ELSE {Append(q, k) : q \in KindSeqs(n - 1), k \in OobKinds}

\* the label of the i-th out-of-band reply written for the n-th command
Label(n, i) == "m" \o ToString(n) \o "." \o ToString(i)

\* the replies written for the n-th command of a call: `before` out-of-band
\* replies, the value, then the rest of the out-of-band replies
Replies(value, kinds, before, n) ==
  LET oob == [i \in 1..Len(kinds) |-> OobReply(kinds[i], Label(n, i))]
  IN  SubSeq(oob, 1, before) \o <<value>> \o SubSeq(oob, before + 1, Len(oob))

\* what the process may answer to the n-th command of a call while it may
\* still write `left` out-of-band replies
Responses(command, ptip, nid, n, left) ==
  {[replies |-> Replies(o.value, ar[1], ar[2], n),
    procTip |-> o.procTip, nextId |-> o.nextId, oobs |-> left - Len(ar[1])] :
      o \in Outcomes(command, ptip, nid),
      ar \in {<<kinds, before>> \in
                (UNION {KindSeqs(k) : k \in 0..left}) \X (0..left) :
                before <= Len(kinds)}}

\* ------------------------------------------------------------------ state
VARIABLES
  tip,            \* self.tip
  pc,             \* where the call in progress stands; "idle" between calls
  call,           \* the entry point of the call in progress or just ended
  code,           \* the argument of eval
  sentences,      \* the deque of pending sentences
  sentence,       \* the sentence popped by the current iteration
  tip_before,
  code_evaluated,
  outputs,
  add_reply,
  discarded,      \* the out-of-band replies bound to `_`
  status_reply,
  out_of_band_status_replies,
  stream,         \* replies the process has written and the driver has not read
  procTip,        \* the tip of the external process
  nextId,         \* the next state id the process hands out
  cmds,           \* the commands sent during the call
  executed,       \* the last run of _execute_command in the call: what it read and gave
  cause,          \* why the call raised, "" if it did not
  all_accepted,   \* no sentence of the call was found not good so far
  committed,      \* the state id the last committed Add advanced tip to
  edited,         \* the target of the last Edit_at that was answered good
  calls,          \* calls made on the session
  oobs,           \* out-of-band replies the process may still write
  accepted        \* the sentences committed so far in the call

vars ==
  <<tip, pc, call, code, sentences, sentence, tip_before, code_evaluated, outputs,
    add_reply, discarded, status_reply, out_of_band_status_replies, stream,
    procTip, nextId, cmds, executed, cause, all_accepted, committed, edited, calls, oobs, accepted>>

locals ==
  <<code, sentences, sentence, tip_before, code_evaluated, outputs,
    add_reply, discarded, status_reply, out_of_band_status_replies, accepted>>

NotExecuted ==
  [command |-> GOAL_COMMAND, buffer |-> <<>>, allow_fail |-> FALSE,
   result |-> [raised |-> FALSE, reply |-> Unbound,
               out_of_band_replies |-> <<>>, rest |-> <<>>]]

\* the session after __init__: Init was answered with the first state id
Init ==
  /\ tip = InitId
  /\ pc = "idle"
  /\ call = ""
  /\ code = <<>>
  /\ sentences = <<>>
  /\ sentence = <<>>
  /\ tip_before = InitId
  /\ code_evaluated = TRUE
  /\ outputs = <<>>
  /\ add_reply = Unbound
  /\ discarded = <<>>
  /\ status_reply = Unbound
  /\ out_of_band_status_replies = <<>>
  /\ stream = <<>>
  /\ procTip = InitId
  /\ nextId = InitId + 1
  /\ cmds = <<>>
  /\ executed = NotExecuted
  /\ cause = ""
  /\ all_accepted = TRUE
  /\ committed = NoId
  /\ edited = NoId
  /\ calls = 0
  /\ oobs = MaxOob
  /\ accepted = <<>>

\* _execute_command(command, allow_fail) against the response r of the process:
\* the command is sent, the process acts on it and writes r.replies behind
\* what is still unread, and the loop reads up to the first value
Run(command, allow_fail, r) == _execute_command(stream \o r.replies, allow_fail)

Execute(command, allow_fail, r) ==
  /\ cmds' = Append(cmds, command)
  /\ procTip' = r.procTip
  /\ nextId' = r.nextId
  /\ oobs' = r.oobs
  /\ stream' = Run(command, allow_fail, r).rest
  /\ executed' = [command |-> command, buffer |-> stream \o r.replies,
                  allow_fail |-> allow_fail, result |-> Run(command, allow_fail, r)]

Answers(command) == Responses(command, procTip, nextId, Len(cmds) + 1, oobs)

\* lines 89..100, apart from the binding of the argument
EvalFrame(c) ==
  /\ pc = "idle"
  /\ calls < MaxCalls
  /\ sentences' = Sentences(c)
  /\ tip_before' = tip
  /\ code_evaluated' = TRUE
  /\ outputs' = <<>>
  /\ sentence' = <<>>
  /\ add_reply' = Unbound
  /\ discarded' = <<>>
  /\ status_reply' = Unbound
  /\ out_of_band_status_replies' = <<>>
  /\ cmds' = <<>>
  /\ cause' = ""
  /\ all_accepted' = TRUE
  /\ call' = "eval"
  /\ calls' = calls + 1
  /\ pc' = "loop"
  /\ executed' = NotExecuted
  /\ accepted' = <<>>
  /\ UNCHANGED <<tip, stream, procTip, nextId, committed, edited, oobs>>

\* eval(c)
EvalWith(c) == code' = c /\ EvalFrame(c)

EvalCall == \E c \in Texts : EvalWith(c)

\* lines 101..104: pop the front sentence and run Add on it
ExecAdd ==
  /\ pc = "loop"
  /\ Len(sentences) > 0
  /\ sentence' = Head(sentences)
  /\ sentences' = Tail(sentences)
  /\ \E r \in Answers(AddCommand(Head(sentences), tip)) :
       /\ Execute(AddCommand(Head(sentences), tip), TRUE, r)
       /\ add_reply' = Run(AddCommand(Head(sentences), tip), TRUE, r).reply
       /\ discarded' = Run(AddCommand(Head(sentences), tip), TRUE, r).out_of_band_replies
  /\ pc' = "status"
  /\ UNCHANGED <<tip, call, code, tip_before, code_evaluated, outputs, status_reply,
                 out_of_band_status_replies, cause, all_accepted, committed, edited, calls,
                 accepted>>

\* ExecStatus without allow_fail: a fail reply to Status raises
ExecStatus_NoAllowFail ==
  /\ pc = "status"
  /\ \E r \in Answers(STATUS_COMMAND) :
       /\ Execute(STATUS_COMMAND, FALSE, r)
       /\ IF Run(STATUS_COMMAND, FALSE, r).raised
          THEN /\ pc' = "raised"
               /\ cause' = "Status"
               /\ UNCHANGED <<status_reply, out_of_band_status_replies>>
          ELSE /\ pc' = "classify"
               /\ status_reply' = Run(STATUS_COMMAND, FALSE, r).reply
               /\ out_of_band_status_replies' =
                    Run(STATUS_COMMAND, FALSE, r).out_of_band_replies
               /\ UNCHANGED cause
  /\ UNCHANGED <<tip, call, code, sentences, sentence, tip_before, code_evaluated, outputs,
                 add_reply, discarded, all_accepted, committed, edited, calls, accepted>>

\* line 105
ExecStatus ==
  /\ pc = "status"
  /\ \E r \in Answers(STATUS_COMMAND) :
       /\ Execute(STATUS_COMMAND, TRUE, r)
       /\ status_reply' = Run(STATUS_COMMAND, TRUE, r).reply
       /\ out_of_band_status_replies' = Run(STATUS_COMMAND, TRUE, r).out_of_band_replies
  /\ pc' = "classify"
  /\ UNCHANGED <<tip, call, code, sentences, sentence, tip_before, code_evaluated, outputs,
                 add_reply, discarded, cause, all_accepted, committed, edited, calls,
                 accepted>>

\* lines 107..117
sentence_evaluated == _is_good(add_reply) /\ _is_good(status_reply)

errors ==
  LET replies == SelectSeq(<<add_reply, status_reply>>, _has_error)
  IN  [i \in 1..Len(replies) |-> _get_error_content(replies[i])]

out_of_band_status_messsages ==
  LET replies == SelectSeq(out_of_band_status_replies, _is_message)
  IN  [i \in 1..Len(replies) |-> _get_message_content(replies[i])]

\* SentenceRollback that sends no Edit_at
SentenceRollback_NoEdit ==
  /\ pc = "classify"
  /\ ~sentence_evaluated
  /\ pc' = "rolled"
  /\ all_accepted' = FALSE
  /\ UNCHANGED <<tip, call, locals, stream, procTip, nextId, cmds, executed, cause,
                 committed, edited, calls, oobs>>

\* SentenceRollback that rolls back only when no sentence is left to merge
SentenceRollback_LastOnly ==
  /\ pc = "classify"
  /\ ~sentence_evaluated
  /\ IF Len(sentences) > 0
     THEN /\ pc' = "rolled"
          /\ UNCHANGED <<tip, stream, procTip, nextId, cmds, executed, cause, edited, oobs>>
     ELSE \E r \in Answers(EditAtCommand(tip)) :
            /\ Execute(EditAtCommand(tip), FALSE, r)
            /\ IF Run(EditAtCommand(tip), FALSE, r).raised
               THEN /\ pc' = "raised"
                    /\ cause' = "Edit_at"
                    /\ UNCHANGED <<tip, edited>>
               ELSE /\ pc' = "rolled"
                    /\ tip' = tip
                    /\ edited' = tip
                    /\ UNCHANGED cause
  /\ all_accepted' = FALSE
  /\ UNCHANGED <<call, locals, committed, calls>>

\* lines 119..123: a sentence that is not good is rolled back to the tip
SentenceRollback ==
  /\ pc = "classify"
  /\ ~sentence_evaluated
  /\ \E r \in Answers(EditAtCommand(tip)) :
       /\ Execute(EditAtCommand(tip), FALSE, r)
       /\ IF Run(EditAtCommand(tip), FALSE, r).raised
          THEN /\ pc' = "raised"
               /\ cause' = "Edit_at"
               /\ UNCHANGED <<tip, edited>>
          ELSE /\ pc' = "rolled"
               /\ tip' = tip
               /\ edited' = tip
               /\ UNCHANGED cause
  /\ all_accepted' = FALSE
  /\ UNCHANGED <<call, locals, committed, calls>>

\* MergeRetry that drops the failed sentence and goes on with the next one
MergeRetry_DropFailed ==
  /\ pc = "rolled"
  /\ Len(sentences) > 0
  /\ pc' = "loop"
  /\ UNCHANGED <<tip, call, locals, stream, procTip, nextId, cmds, executed, cause,
                 all_accepted, committed, edited, calls, oobs>>

\* MergeRetry that puts the failed sentence back without joining it with the
\* next one
MergeRetry_Requeue ==
  /\ pc = "rolled"
  /\ Len(sentences) > 0
  /\ sentences' = <<sentence>> \o sentences
  /\ pc' = "loop"
  /\ UNCHANGED <<tip, call, code, sentence, tip_before, code_evaluated, outputs, add_reply,
                 discarded, status_reply, out_of_band_status_replies, stream, procTip,
                 nextId, cmds, executed, cause, all_accepted, committed, edited, calls, oobs,
                 accepted>>

\* MergeRetry joining the two sentences the wrong way round
MergeRetry_Swapped ==
  /\ pc = "rolled"
  /\ Len(sentences) > 0
  /\ sentences' = <<Head(sentences) \o sentence>> \o Tail(sentences)
  /\ pc' = "loop"
  /\ UNCHANGED <<tip, call, code, sentence, tip_before, code_evaluated, outputs, add_reply,
                 discarded, status_reply, out_of_band_status_replies, stream, procTip,
                 nextId, cmds, executed, cause, all_accepted, committed, edited, calls, oobs,
                 accepted>>

\* MergeRetry that reports the errors of the failed attempt before retrying
MergeRetry_Report ==
  /\ pc = "rolled"
  /\ Len(sentences) > 0
  /\ sentences' = <<sentence \o Head(sentences)>> \o Tail(sentences)
  /\ outputs' = outputs \o errors
  /\ pc' = "loop"
  /\ UNCHANGED <<tip, call, code, sentence, tip_before, code_evaluated, add_reply,
                 discarded, status_reply, out_of_band_status_replies, stream, procTip,
                 nextId, cmds, executed, cause, all_accepted, committed, edited, calls, oobs,
                 accepted>>

\* lines 125..130
MergeRetry ==
  /\ pc = "rolled"
  /\ Len(sentences) > 0
  /\ sentences' = <<sentence \o Head(sentences)>> \o Tail(sentences)
  /\ pc' = "loop"
  /\ UNCHANGED <<tip, call, code, sentence, tip_before, code_evaluated, outputs, add_reply,
                 discarded, status_reply, out_of_band_status_replies, stream, procTip,
                 nextId, cmds, executed, cause, all_accepted, committed, edited, calls, oobs,
                 accepted>>

\* lines 132..135
IgnoreEndOfInput ==
  /\ pc = "rolled"
  /\ Len(sentences) = 0
  /\ _is_end_of_input_error(add_reply)
  /\ pc' = "finish"
  /\ UNCHANGED <<tip, call, locals, stream, procTip, nextId, cmds, executed, cause,
                 all_accepted, committed, edited, calls, oobs>>

\* lines 137..142
FailCell ==
  /\ pc = "rolled"
  /\ Len(sentences) = 0
  /\ ~_is_end_of_input_error(add_reply)
  /\ code_evaluated' = FALSE
  /\ outputs' = outputs \o errors
  /\ pc' = "finish"
  /\ UNCHANGED <<tip, call, code, sentences, sentence, tip_before, add_reply, discarded,
                 status_reply, out_of_band_status_replies, stream, procTip, nextId, cmds,
                 executed, cause, all_accepted, committed, edited, calls, oobs, accepted>>

\* SentenceCommit taking the state id of the pair even when the union holds one
SentenceCommit_PairId ==
  /\ pc = "classify"
  /\ sentence_evaluated
  /\ tip' = add_reply.state_id
  /\ committed' = add_reply.state_id
  /\ outputs' = outputs \o out_of_band_status_messsages
  /\ accepted' = Append(accepted, sentence)
  /\ pc' = "loop"
  /\ UNCHANGED <<call, code, sentences, sentence, tip_before, code_evaluated, add_reply,
                 discarded, status_reply, out_of_band_status_replies, stream, procTip,
                 nextId, cmds, executed, cause, all_accepted, edited, calls, oobs>>

\* SentenceCommit putting the new diagnostics in front of the outputs
SentenceCommit_Prepend ==
  /\ pc = "classify"
  /\ sentence_evaluated
  /\ tip' = _get_nexttip(add_reply)
  /\ committed' = _get_nexttip(add_reply)
  /\ outputs' = out_of_band_status_messsages \o outputs
  /\ accepted' = Append(accepted, sentence)
  /\ pc' = "loop"
  /\ UNCHANGED <<call, code, sentences, sentence, tip_before, code_evaluated, add_reply,
                 discarded, status_reply, out_of_band_status_replies, stream, procTip,
                 nextId, cmds, executed, cause, all_accepted, edited, calls, oobs>>

\* lines 144..145
SentenceCommit ==
  /\ pc = "classify"
  /\ sentence_evaluated
  /\ tip' = _get_nexttip(add_reply)
  /\ committed' = _get_nexttip(add_reply)
  /\ outputs' = outputs \o out_of_band_status_messsages
  /\ accepted' = Append(accepted, sentence)
  /\ pc' = "loop"
  /\ UNCHANGED <<call, code, sentences, sentence, tip_before, code_evaluated, add_reply,
                 discarded, status_reply, out_of_band_status_replies, stream, procTip,
                 nextId, cmds, executed, cause, all_accepted, edited, calls, oobs>>

\* line 101: the deque is empty
LoopExit ==
  /\ pc = "loop"
  /\ Len(sentences) = 0
  /\ pc' = "finish"
  /\ UNCHANGED <<tip, call, locals, stream, procTip, nextId, cmds, executed, cause,
                 all_accepted, committed, edited, calls, oobs>>

\* lines 147..149 when no iteration assigned status_reply: reading the local
\* raises UnboundLocalError, which line 162 turns into CoqtopError
FinishUnbound ==
  /\ pc = "finish"
  /\ code_evaluated
  /\ status_reply = Unbound
  /\ pc' = "raised"
  /\ cause' = "UnboundLocalError"
  /\ UNCHANGED <<tip, call, locals, stream, procTip, nextId, cmds, executed,
                 all_accepted, committed, edited, calls, oobs>>

proving_line ==
  IF _is_proving(status_reply)
  THEN <<<<"Proving: ", _get_proof_name(status_reply)>>>>
  ELSE <<>>

\* lines 147..155
FinishGoal ==
  /\ pc = "finish"
  /\ code_evaluated
  /\ status_reply # Unbound
  /\ \E r \in Answers(GOAL_COMMAND) :
       /\ Execute(GOAL_COMMAND, FALSE, r)
       /\ IF Run(GOAL_COMMAND, FALSE, r).raised
          THEN /\ pc' = "raised"
               /\ cause' = "Goal"
               /\ outputs' = outputs \o proving_line
               /\ UNCHANGED discarded
          ELSE /\ pc' = "returned"
               /\ discarded' = Run(GOAL_COMMAND, FALSE, r).out_of_band_replies
               /\ outputs' = outputs \o proving_line \o
                    (IF _has_goals(Run(GOAL_COMMAND, FALSE, r).reply)
                     THEN <<_get_goals_content(Run(GOAL_COMMAND, FALSE, r).reply)>>
                     ELSE <<>>)
               /\ UNCHANGED cause
  /\ UNCHANGED <<tip, call, code, sentences, sentence, tip_before, code_evaluated,
                 add_reply, status_reply, out_of_band_status_replies,
                 all_accepted, committed, edited, calls, accepted>>

\* FinishRollback rolling back to the current tip instead of tip_before
FinishRollback_ToTip ==
  /\ pc = "finish"
  /\ ~code_evaluated
  /\ \E r \in Answers(EditAtCommand(tip)) :
       /\ Execute(EditAtCommand(tip), FALSE, r)
       /\ IF Run(EditAtCommand(tip), FALSE, r).raised
          THEN /\ pc' = "raised"
               /\ cause' = "Edit_at"
               /\ UNCHANGED <<tip, edited>>
          ELSE /\ pc' = "returned"
               /\ tip' = tip
               /\ edited' = tip
               /\ UNCHANGED cause
  /\ UNCHANGED <<call, locals, all_accepted, committed, calls>>

\* FinishRollback that restores tip without sending Edit_at
FinishRollback_NoEdit ==
  /\ pc = "finish"
  /\ ~code_evaluated
  /\ pc' = "returned"
  /\ tip' = tip_before
  /\ UNCHANGED <<call, locals, stream, procTip, nextId, cmds, executed, cause,
                 all_accepted, committed, edited, calls, oobs>>

\* lines 156..158
FinishRollback ==
  /\ pc = "finish"
  /\ ~code_evaluated
  /\ \E r \in Answers(EditAtCommand(tip_before)) :
       /\ Execute(EditAtCommand(tip_before), FALSE, r)
       /\ IF Run(EditAtCommand(tip_before), FALSE, r).raised
          THEN /\ pc' = "raised"
               /\ cause' = "Edit_at"
               /\ UNCHANGED <<tip, edited>>
          ELSE /\ pc' = "returned"
               /\ tip' = tip_before
               /\ edited' = tip_before
               /\ UNCHANGED cause
  /\ UNCHANGED <<call, locals, all_accepted, committed, calls>>

\* lines 160 and 163: the caller has the pair, or the CoqtopError, and the
\* frame of the call is gone
EvalEnd ==
  /\ pc \in {"returned", "raised"}
  /\ pc' = "idle"
  /\ code' = <<>>
  /\ sentences' = <<>>
  /\ sentence' = <<>>
  /\ tip_before' = tip
  /\ code_evaluated' = TRUE
  /\ outputs' = <<>>
  /\ add_reply' = Unbound
  /\ discarded' = <<>>
  /\ status_reply' = Unbound
  /\ out_of_band_status_replies' = <<>>
  /\ cmds' = <<>>
  /\ executed' = NotExecuted
  /\ cause' = ""
  /\ all_accepted' = TRUE
  /\ accepted' = <<>>
  /\ UNCHANGED <<tip, call, stream, procTip, nextId, committed, edited, calls, oobs>>

\* roll_back_to assigning tip before the Edit_at is answered
roll_back_to_AssignFirst ==
  /\ pc = "idle"
  /\ calls < MaxCalls
  /\ \E state_id \in 1..MaxId :
       \E r \in Responses(EditAtCommand(state_id), procTip, nextId, 1, oobs) :
         /\ cmds' = <<EditAtCommand(state_id)>>
         /\ procTip' = r.procTip
         /\ nextId' = r.nextId
         /\ oobs' = r.oobs
         /\ stream' = _execute_command(stream \o r.replies, FALSE).rest
         /\ executed' = [command |-> EditAtCommand(state_id),
                         buffer |-> stream \o r.replies, allow_fail |-> FALSE,
                         result |-> _execute_command(stream \o r.replies, FALSE)]
         /\ tip' = state_id
         /\ IF _execute_command(stream \o r.replies, FALSE).raised
            THEN /\ pc' = "raised"
                 /\ cause' = "Edit_at"
                 /\ UNCHANGED edited
            ELSE /\ pc' = "returned"
                 /\ cause' = ""
                 /\ edited' = state_id
  /\ call' = "roll_back_to"
  /\ calls' = calls + 1
  /\ UNCHANGED <<locals, all_accepted, committed>>

\* roll_back_to running Edit_at with allow_fail, so that a fail reply is
\* returned to it and tip is assigned all the same
roll_back_to_AllowFail ==
  /\ pc = "idle"
  /\ calls < MaxCalls
  /\ \E state_id \in 1..MaxId :
       \E r \in Responses(EditAtCommand(state_id), procTip, nextId, 1, oobs) :
         /\ cmds' = <<EditAtCommand(state_id)>>
         /\ procTip' = r.procTip
         /\ nextId' = r.nextId
         /\ oobs' = r.oobs
         /\ stream' = _execute_command(stream \o r.replies, TRUE).rest
         /\ executed' = [command |-> EditAtCommand(state_id),
                         buffer |-> stream \o r.replies, allow_fail |-> TRUE,
                         result |-> _execute_command(stream \o r.replies, TRUE)]
         /\ pc' = "returned"
         /\ cause' = ""
         /\ tip' = state_id
         /\ edited' = IF _is_good(_execute_command(stream \o r.replies, TRUE).reply)
                       THEN state_id ELSE edited
  /\ call' = "roll_back_to"
  /\ calls' = calls + 1
  /\ UNCHANGED <<locals, all_accepted, committed>>

\* lines 165..167, called by the owner of the session
roll_back_to ==
  /\ pc = "idle"
  /\ calls < MaxCalls
  /\ \E state_id \in 1..MaxId :
       \E r \in Responses(EditAtCommand(state_id), procTip, nextId, 1, oobs) :
         /\ cmds' = <<EditAtCommand(state_id)>>
         /\ procTip' = r.procTip
         /\ nextId' = r.nextId
         /\ oobs' = r.oobs
         /\ stream' = _execute_command(stream \o r.replies, FALSE).rest
         /\ executed' = [command |-> EditAtCommand(state_id),
                         buffer |-> stream \o r.replies, allow_fail |-> FALSE,
                         result |-> _execute_command(stream \o r.replies, FALSE)]
         /\ IF _execute_command(stream \o r.replies, FALSE).raised
            THEN /\ pc' = "raised"
                 /\ cause' = "Edit_at"
                 /\ UNCHANGED <<tip, edited>>
            ELSE /\ pc' = "returned"
                 /\ cause' = ""
                 /\ tip' = state_id
                 /\ edited' = state_id
  /\ call' = "roll_back_to"
  /\ calls' = calls + 1
  /\ UNCHANGED <<locals, all_accepted, committed>>

Next ==
  \/ EvalCall
  \/ ExecAdd
  \/ ExecStatus
  \/ SentenceRollback
  \/ MergeRetry
  \/ IgnoreEndOfInput
  \/ FailCell
  \/ SentenceCommit
  \/ LoopExit
  \/ FinishUnbound
  \/ FinishGoal
  \/ FinishRollback
  \/ EvalEnd
  \/ roll_back_to

Spec == Init /\ [][Next]_vars

\* ------------------------------------------- one eval on a fresh session
\* a session whose process may write MaxDiag out-of-band replies
InitCall ==
  /\ tip = InitId
  /\ pc = "idle"
  /\ call = ""
  /\ code = <<>>
  /\ sentences = <<>>
  /\ sentence = <<>>
  /\ tip_before = InitId
  /\ code_evaluated = TRUE
  /\ outputs = <<>>
  /\ add_reply = Unbound
  /\ discarded = <<>>
  /\ status_reply = Unbound
  /\ out_of_band_status_replies = <<>>
  /\ stream = <<>>
  /\ procTip = InitId
  /\ nextId = InitId + 1
  /\ cmds = <<>>
  /\ executed = NotExecuted
  /\ cause = ""
  /\ all_accepted = TRUE
  /\ committed = NoId
  /\ edited = NoId
  /\ calls = 0
  /\ oobs = MaxDiag
  /\ accepted = <<>>

\* the first eval of the session
EvalFirst == calls = 0 /\ EvalCall

NextCall ==
  \/ EvalFirst
  \/ ExecAdd
  \/ ExecStatus
  \/ SentenceRollback
  \/ MergeRetry
  \/ IgnoreEndOfInput
  \/ FailCell
  \/ SentenceCommit
  \/ LoopExit
  \/ FinishUnbound
  \/ FinishGoal
  \/ FinishRollback
  \/ EvalEnd

SpecCall == InitCall /\ [][NextCall]_vars

\* the steps eval takes by itself once it is called: the code is sequential
\* and the process answers every command, so a call in progress goes on
EvalStep ==
  \/ ExecAdd
  \/ ExecStatus
  \/ SentenceRollback
  \/ MergeRetry
  \/ IgnoreEndOfInput
  \/ FailCell
  \/ SentenceCommit
  \/ LoopExit
  \/ FinishUnbound
  \/ FinishGoal
  \/ FinishRollback

\* one eval on a fresh session, carried on to its end
SpecCallFair == Init /\ [][NextCall]_vars /\ WF_vars(EvalStep)

\* ------------------------------------------- the executor on its own
\* replies the process may have written, in any order and number
WrittenReplies ==
  {OobReply(k, "m") : k \in {"feedback", "message"}}
    \cup {Value("good", NoId, NoId, NoText, "", NoGoals), Fail(<<"e">>)}

RECURSIVE Writes(_)
Writes(n) ==
  IF n = 0 THEN {<<>>}
  ELSE Writes(n - 1) \cup
       {Append(w, x) : w \in {v \in Writes(n - 1) : Len(v) = n - 1}, x \in WrittenReplies}

HasValue(buffer) == \E i \in 1..Len(buffer) : buffer[i].tag = "value"

\* one run of _execute_command; with no value reply to read it blocks
ExecuteOnce ==
  /\ calls < MaxExec
  /\ \E command \in {STATUS_COMMAND}, allow_fail \in BOOLEAN, w \in Writes(MaxBuf) :
       LET r == [replies |-> w, procTip |-> procTip, nextId |-> nextId, oobs |-> oobs]
       IN  /\ HasValue(stream \o w)
           /\ Execute(command, allow_fail, r)
           /\ pc' = IF Run(command, allow_fail, r).raised THEN "raised" ELSE "returned"
  /\ calls' = calls + 1
  /\ UNCHANGED <<tip, call, locals, cause, all_accepted, committed, edited>>

NextExec == ExecuteOnce

SpecExec == Init /\ [][NextExec]_vars

\* ----------------------------------------------------------------- claims
Adds(log) == SelectSeq(log, LAMBDA c : c.cmd = "Add")

LastOf(seq) == seq[Len(seq)]

EvalReturned == call = "eval" /\ pc = "returned"

EvalRaised == call = "eval" /\ pc = "raised"

\* C1: when eval returns success = false, tip equals the tip at entry to the
\* call, also when sentences were committed before the failing one.
C1_FailedEvalRestoresTip ==
  (EvalReturned /\ ~code_evaluated) => tip = tip_before

\* a failed eval during which an Add was sent at an advanced tip
C1_Witness ==
  /\ EvalReturned
  /\ ~code_evaluated
  /\ \E i \in 1..Len(cmds) : cmds[i].cmd = "Add" /\ cmds[i].state_id # tip_before

WhitespaceOnly(text) == \A i \in 1..Len(text) : text[i] \in StripChars

\* C2: for every input made only of whitespace, eval returns (true, []) and
\* leaves tip unchanged.
C2_WhitespaceReturnsEmptySuccess ==
  (call = "eval" /\ pc \in {"finish", "returned", "raised"} /\ WhitespaceOnly(code))
    => /\ pc # "raised"
       /\ code_evaluated
       /\ outputs = <<>>
       /\ tip = tip_before

\* C3: when every sentence of the input was accepted on its first attempt,
\* tip after eval is the state id carried by the reply to the last Add.
C3_TipIsLastAddStateId ==
  (call = "eval" /\ pc \in {"returned", "raised"} /\ all_accepted /\ Adds(cmds) # <<>>)
    => tip = _get_nexttip(add_reply)

\* an eval that returned after two accepted sentences, the last reply naming
\* its next tip in the union
C3_Witness ==
  /\ EvalReturned
  /\ all_accepted
  /\ Len(Adds(cmds)) = 2
  /\ add_reply.union_id # NoId
  /\ tip # tip_before

RECURSIVE CountDots(_)
CountDots(text) ==
  IF text = <<>> THEN 0
  ELSE (IF Head(text) = "." THEN 1 ELSE 0) + CountDots(Tail(text))

\* the text after the last dot
RECURSIVE AfterLastDot(_)
AfterLastDot(text) ==
  IF text = <<>> \/ text[Len(text)] = "." THEN <<>>
  ELSE Append(AfterLastDot(SubSeq(text, 1, Len(text) - 1)), text[Len(text)])

\* C4 as stated: when every sentence was accepted on its first attempt, the
\* number of Add commands equals the number of dots of the input.
C4_AddsEqualDots ==
  (call = "eval" /\ pc \in {"returned", "raised"} /\ all_accepted)
    => Len(Adds(cmds)) = CountDots(code)

\* C4 amended: when every sentence was accepted on its first attempt, the
\* number of Add commands equals the number of dots of the input, plus one
\* when the text after the last dot is not all whitespace.
C4_AddsEqualSentences ==
  (call = "eval" /\ pc \in {"returned", "raised"} /\ all_accepted)
    => Len(Adds(cmds)) =
         CountDots(code) + (IF WhitespaceOnly(AfterLastDot(code)) THEN 0 ELSE 1)

\* an eval of a terminated sentence followed by a leftover, both accepted
C4_Witness ==
  /\ EvalReturned
  /\ all_accepted
  /\ CountDots(code) = 1
  /\ ~WhitespaceOnly(AfterLastDot(code))
  /\ Len(Adds(cmds)) = 2

\* C5: a sentence that is not good while the deque still holds a sentence is
\* not reported and does not advance tip; the deque gets the failed sentence
\* joined with its former front, and the next Add carries that joined text at
\* the tip of the failed attempt.
C5_MergeAndRetry ==
  [][ /\ (pc = "classify" /\ ~sentence_evaluated /\ Len(sentences) > 0)
         => /\ tip' = tip
            /\ outputs' = outputs
            /\ code_evaluated'
            /\ sentences' = sentences
            /\ pc' = "rolled" \/ (pc' = "raised" /\ LastOf(cmds').cmd = "Edit_at")
      /\ (pc = "rolled" /\ Len(sentences) > 0)
         => /\ pc' = "loop"
            /\ tip' = tip
            /\ outputs' = outputs
            /\ code_evaluated'
            /\ LastOf(Adds(cmds)) = AddCommand(sentence, tip)
            /\ sentences' = <<sentence \o Head(sentences)>> \o Tail(sentences)
      /\ (pc = "loop" /\ pc' = "status")
         => /\ cmds' = Append(cmds, AddCommand(Head(sentences), tip))
            /\ tip' = tip
    ]_vars

\* an eval of two sentences that returned success after the first was
\* rejected alone and the joined text was accepted
C5_Witness ==
  /\ EvalReturned
  /\ code_evaluated
  /\ Len(Sentences(code)) = 2
  /\ Len(Adds(cmds)) = 2
  /\ Adds(cmds)[2].text = code
  /\ Adds(cmds)[2].state_id = Adds(cmds)[1].state_id
  /\ _is_good(add_reply)
  /\ tip = _get_nexttip(add_reply)

NoWhitespaceAdd ==
  \A i \in 1..Len(cmds) : cmds[i].cmd = "Add" => ~WhitespaceOnly(cmds[i].text)

\* C6: for a text t ending with a dot and a whitespace-only w, eval(t + w)
\* starts from the state eval(t) starts from (the same deque, the same tip,
\* nothing else of the frame depending on the text), so it sends the same
\* commands and returns the same pair; no Add carries whitespace only.
C6_TrailingWhitespaceDropped ==
  /\ [][ \A c \in Texts : \A k \in 1..Len(c) :
           (EvalWith(c) /\ c[k] = "." /\ WhitespaceOnly(SubSeq(c, k + 1, Len(c))))
             => EvalFrame(SubSeq(c, 1, k)) ]_vars
  /\ []NoWhitespaceAdd

\* an eval that returned for a sentence followed by whitespace
C6_Witness ==
  /\ EvalReturned
  /\ Len(code) >= 2
  /\ code[Len(code)] \in StripChars
  /\ code[Len(code) - 1] = "."
  /\ Len(Adds(cmds)) = 1

\* C7: tip is the state id of Init, the state id the last committed Add
\* advanced to, or the target of the last Edit_at answered good.
C7_TipIsReturnedOrRolledBackTo ==
  \/ tip = InitId
  \/ committed # NoId /\ tip = committed
  \/ edited # NoId /\ tip = edited

\* a session rolled back to a state that is neither the initial one nor the
\* one its last committed Add advanced to
C7_Witness ==
  /\ committed # NoId
  /\ tip # committed
  /\ tip # InitId
  /\ tip = edited

\* C8: when eval returns, the tip of the session is the tip of the process.
C8_TipsCoincideAtReturn ==
  EvalReturned => tip = procTip

\* an eval that returned after an Add the process applied and a Status it
\* refused
C8_Witness ==
  /\ EvalReturned
  /\ \E i \in 1..Len(cmds) : cmds[i].cmd = "Edit_at"
  /\ _is_good(add_reply)
  /\ ~_is_good(status_reply)
  /\ nextId > InitId + 1

\* C9: an eval that sent an Add raises only on a fail reply to an Edit_at or
\* a Goal command: fail replies to Add and Status never raise.
C9_AddStatusFailNotRaised ==
  (EvalRaised /\ Adds(cmds) # <<>>)
    => /\ LastOf(cmds).cmd \in {"Edit_at", "Goal"}
       /\ executed.command = LastOf(cmds)
       /\ ~_is_good(executed.result.reply)

\* an eval that returned although both the Add and the Status of its last
\* sentence were answered fail
C9_Witness ==
  /\ EvalReturned
  /\ add_reply.val = "fail"
  /\ status_reply.val = "fail"

FirstValue(buffer) ==
  CHOOSE i \in 1..Len(buffer) :
    buffer[i].tag = "value" /\ \A j \in 1..(i - 1) : buffer[j].tag # "value"

\* C10: a run of the executor sends its command once, reads up to the first
\* value reply and no further, raises exactly when that value is a fail that
\* was not allowed, and gives the value with the replies read before it.
C10_ExecuteContract ==
  executed # NotExecuted =>
    LET buffer == executed.buffer
        k      == FirstValue(buffer)
        result == executed.result
    IN  /\ Len(cmds) = calls
        /\ LastOf(cmds) = executed.command
        /\ result.reply = buffer[k]
        /\ result.raised = (buffer[k].val = "fail" /\ ~executed.allow_fail)
        /\ (pc = "raised") = result.raised
        /\ result.out_of_band_replies = SubSeq(buffer, 1, k - 1)
        /\ stream = SubSeq(buffer, k + 1, Len(buffer))

\* a run that allowed failure and read a fail value between two other replies
C10_Witness ==
  /\ executed # NotExecuted
  /\ executed.allow_fail
  /\ executed.result.reply.val = "fail"
  /\ executed.result.out_of_band_replies # <<>>
  /\ stream # <<>>
  /\ pc = "returned"

\* the end-of-input signature found in a collected error text
IsEndOfInputText(error_content) ==
  \/ Contains(error_content, "Anomaly") /\ Contains(error_content, "Stm.End_of_input")
  \/ Contains(error_content, "Anomaly")
     /\ Contains(error_content, "Invalid_argument(\"vernac_parse\")")

\* the state the call has committed up to
LastCommitted == IF accepted = <<>> THEN tip_before ELSE committed

IsErrorText(output) == Head(output) = ERROR_PREFIX

\* C11: when the last sentence of the deque is not good and the error text
\* collected from its Add reply or from its Status reply carries the
\* end-of-input signature, eval ends the loop with success: code_evaluated
\* holds, outputs got no error text, and tip is the last committed state.
C11_EndOfInputFromEitherReply ==
  (/\ call = "eval"
   /\ pc \in {"finish", "returned"}
   /\ status_reply # Unbound
   /\ ~sentence_evaluated
   /\ \E i \in 1..Len(errors) : IsEndOfInputText(errors[i]))
    => /\ code_evaluated
       /\ \A i \in 1..Len(outputs) : ~IsErrorText(outputs[i])
       /\ tip = LastCommitted

IsPrefix(a, b) == Len(a) <= Len(b) /\ SubSeq(b, 1, Len(a)) = a

\* what an element of outputs renders: an error, the proof being made, the
\* goals, or an out-of-band message
Kind(output) ==
  CASE Head(output) = ERROR_PREFIX -> "error"
    [] Head(output) = "Proving: " -> "proving"
    [] Head(output) \in {"No more subgoals", "1 subgoal"} -> "goals"
    [] OTHER -> "diagnostic"

\* the place of a kind of element in the order the replies are received in:
\* messages of the sentences, then the errors of the last attempt or the
\* line from the last Status reply, then the goals from the Goal reply
Rank(output) ==
  CASE Kind(output) = "diagnostic" -> 1
    [] Kind(output) \in {"error", "proving"} -> 2
    [] Kind(output) = "goals" -> 3

\* the command and the position a diagnostic was written for: the process
\* labels the i-th out-of-band reply of the n-th command Label(n, i), and the
\* stream hands the replies over in the order they were written
Stamp(output) ==
  CHOOSE p \in (1..(3 * MaxLen + 2)) \X (1..(MaxOob + MaxDiag)) :
    Label(p[1], p[2]) = LastOf(output)

Earlier(p, q) == p[1] < q[1] \/ (p[1] = q[1] /\ p[2] < q[2])

OutputsInOrder ==
  \A i, j \in 1..Len(outputs) :
    i < j =>
      /\ Rank(outputs[i]) <= Rank(outputs[j])
      /\ Kind(outputs[i]) = "diagnostic" /\ Kind(outputs[j]) = "diagnostic"
           => Earlier(Stamp(outputs[i]), Stamp(outputs[j]))
      /\ Kind(outputs[i]) \in {"proving", "goals"} => Kind(outputs[j]) # Kind(outputs[i])

\* C12: outputs is in the order the replies were received in: during a call
\* outputs only grows at its end; the diagnostics of an earlier command come
\* before those of a later one; the "Proving: " line comes after every
\* diagnostic and the rendered goals, when present, are the last element.
C12_OutputsChronological ==
  /\ [][(call = "eval" /\ pc \notin {"idle", "returned", "raised"})
          => IsPrefix(outputs, outputs')]_vars
  /\ []OutputsInOrder

\* an eval that returned the diagnostics of two sentences, the proof name
\* and the goals
C12_Witness ==
  /\ EvalReturned
  /\ code_evaluated
  /\ Len(outputs) = 4
  /\ Kind(outputs[1]) = "diagnostic"
  /\ Kind(outputs[2]) = "diagnostic"
  /\ Stamp(outputs[1])[1] # Stamp(outputs[2])[1]
  /\ Kind(outputs[3]) = "proving"
  /\ Kind(outputs[4]) = "goals"

\* C13: when eval raises instead of returning, no commit of the call
\* survives: tip equals its value at entry.
C13_RaiseRestoresTip ==
  EvalRaised => tip = tip_before

\* the Status commands of the log that no Edit_at follows
StatusNotRolledBack(log) ==
  {i \in 1..Len(log) :
     log[i].cmd = "Status" /\ (i = Len(log) \/ log[i + 1].cmd # "Edit_at")}

\* C14: a sentence found not good (its Add or its Status answered fail) is
\* followed at once by Edit_at carrying the unadvanced tip: no other command
\* is sent and the call does not end in between, whichever of the three
\* branches (merge, end-of-input, failure) is taken afterwards; so the only
\* Status commands no Edit_at follows are those of committed sentences.
C14_RollbackAfterNotGood ==
  /\ [][(call = "eval" /\ pc = "classify" /\ ~sentence_evaluated)
          => /\ cmds' = Append(cmds, EditAtCommand(tip))
             /\ tip' = tip
             /\ pc' \in {"rolled", "raised"}]_vars
  /\ [](call = "eval" /\ pc = "classify" => LastOf(cmds) = STATUS_COMMAND)
  /\ [](call = "eval" /\ pc = "rolled" => LastOf(cmds) = EditAtCommand(tip))
  /\ [](call = "eval" /\ pc \in {"loop", "rolled", "finish", "returned"}
          => Cardinality(StatusNotRolledBack(cmds)) = Len(accepted))

\* an eval that returned after rolling back a sentence it then merged and
\* the merged sentence it then ignored as the end of the input
C14_Witness ==
  /\ EvalReturned
  /\ code_evaluated
  /\ Len(cmds) = 7
  /\ cmds[3] = EditAtCommand(tip)
  /\ cmds[6] = EditAtCommand(tip)
  /\ cmds[7] = GOAL_COMMAND

\* the rendered messages among out-of-band replies, in the order received
Messages(replies) ==
  LET found == SelectSeq(replies, _is_message)
  IN  [i \in 1..Len(found) |-> _get_message_content(found[i])]

\* C15: when a sentence is good, the messages among the out-of-band replies
\* the executor collected for its Add command and for its Status command are
\* all appended to outputs, in the order received.
C15_AllMessagesAppended ==
  [][(call = "eval" /\ pc = "classify" /\ sentence_evaluated)
       => outputs' = outputs \o Messages(discarded) \o Messages(out_of_band_status_replies)]_vars

Count(log, cmd) == Cardinality({i \in 1..Len(log) : log[i].cmd = cmd})

\* C16: an eval that returns failure sent no Goal, and its last command is
\* Edit_at carrying the tip at entry, sent after the rollback of the failed
\* sentence, so tip and the process are back at the entry state; an eval that
\* returns success sent exactly one Goal, as its last command, after at least
\* one Add and Status, and every Edit_at it sent is the rollback that
\* directly follows the Status of a sentence, not the one of the failure path.
C16_FailureRollsBackSuccessAsksGoal ==
  /\ (EvalReturned /\ ~code_evaluated)
       => /\ Count(cmds, "Goal") = 0
          /\ LastOf(cmds) = EditAtCommand(tip_before)
          /\ Len(cmds) >= 4
          /\ cmds[Len(cmds) - 1].cmd = "Edit_at"
          /\ tip = tip_before
          /\ procTip = tip_before
  /\ (EvalReturned /\ code_evaluated)
       => /\ Count(cmds, "Goal") = 1
          /\ LastOf(cmds) = GOAL_COMMAND
          /\ Count(cmds, "Add") >= 1
          /\ Count(cmds, "Status") = Count(cmds, "Add")
          /\ \A i \in 1..Len(cmds) :
                cmds[i].cmd = "Edit_at" => (i > 1 /\ cmds[i - 1].cmd = "Status")

\* an eval that returned failure after committing a sentence, so that the
\* last Edit_at undoes it
C16_Witness ==
  /\ EvalReturned
  /\ ~code_evaluated
  /\ accepted # <<>>
  /\ committed # tip_before
  /\ cmds[Len(cmds) - 1] # LastOf(cmds)

\* C17: a call of eval ends, by returning or raising, whatever the input and
\* the answers; at the start of every iteration the Add commands sent so far
\* and the sentences still queued add up to the length of the initial deque
\* (an iteration sends one Add and shortens the deque by one), so eval sends
\* at most as many Add commands as the initial deque holds sentences.
C17_EvalTerminates ==
  /\ [](call = "eval" /\ pc \in {"loop", "finish", "returned"}
          => Len(Adds(cmds)) + Len(sentences) = Len(Sentences(code)))
  /\ [](call = "eval" /\ pc \in {"status", "classify", "rolled", "raised"}
          => Len(Adds(cmds)) <= Len(Sentences(code)))
  /\ (pc = "loop") ~> (pc \in {"returned", "raised"})

\* an eval that returned after as many Add commands as its deque held
\* sentences, one of them a merged retry
C17_Witness ==
  /\ EvalReturned
  /\ Len(Sentences(code)) = 2
  /\ Len(Adds(cmds)) = 2
  /\ Adds(cmds)[2].text = code

RECURSIVE Flatten(_)
Flatten(texts) == IF texts = <<>> THEN <<>> ELSE Head(texts) \o Flatten(Tail(texts))

\* the input without the text after its last dot when that text is all
\* whitespace
Trimmed(text) ==
  IF WhitespaceOnly(AfterLastDot(text))
  THEN SubSeq(text, 1, Len(text) - Len(AfterLastDot(text)))
  ELSE text

\* C18: at the head of the loop the committed sentences followed by the
\* queued ones spell the input without a whitespace-only leftover; while a
\* sentence is being tried, its text (the text of the last Add) sits between
\* the two, so every Add carries the span of the input that starts where
\* the last committed sentence ended: merging drops, repeats or reorders
\* nothing.
C18_TextConserved ==
  /\ (call = "eval" /\ pc = "loop")
       => Flatten(accepted) \o Flatten(sentences) = Trimmed(code)
  /\ (call = "eval" /\ pc \in {"status", "classify", "rolled"})
       => /\ LastOf(Adds(cmds)).text = sentence
          /\ Flatten(accepted) \o sentence \o Flatten(sentences) = Trimmed(code)

\* the head of the loop after a sentence and a leftover were merged into
\* the whole input
C18_Witness ==
  /\ call = "eval"
  /\ pc = "loop"
  /\ Len(Adds(cmds)) = 1
  /\ sentences = <<code>>
  /\ ~WhitespaceOnly(AfterLastDot(code))
  /\ Adds(cmds)[1].text # code

\* the error text of a reply answered fail, none for a good one
ErrorOf(reply) ==
  IF reply.val = "fail"
  THEN <<IF Head(reply.richpp) = ERROR_PREFIX THEN reply.richpp
         ELSE <<ERROR_PREFIX>> \o reply.richpp>>
  ELSE <<>>

\* a diagnostic of outputs was collected by the Status of a sentence that
\* was committed: it was written for that Status, or for the Add before it
FromCommitted(output) ==
  \E k \in StatusNotRolledBack(cmds) : Stamp(output)[1] \in {k - 1, k}

\* C19: eval fails only on an attempt made with the deque empty, whose text
\* runs to the end of the (trimmed) input; a sentence rejected while others
\* are queued changes neither outputs nor the verdict; every diagnostic in
\* outputs was collected for a committed sentence, never for an attempt that
\* was merged; and on failure outputs is those diagnostics followed by the
\* error texts of the last attempt only, the one of Add before the one of
\* Status.
C19_FailureOnlyForLastAttempt ==
  /\ [][(call = "eval" /\ pc \in {"classify", "rolled"} /\ ~sentence_evaluated
           /\ Len(sentences) > 0)
          => (outputs' = outputs /\ code_evaluated')]_vars
  /\ [](call = "eval" /\ pc \in {"finish", "returned"} /\ ~code_evaluated
          => /\ Len(sentences) = 0
             /\ ~sentence_evaluated
             /\ LastOf(Adds(cmds)).text = sentence
             /\ Flatten(accepted) \o sentence = Trimmed(code)
             /\ SelectSeq(outputs, IsErrorText) = ErrorOf(add_reply) \o ErrorOf(status_reply)
             /\ \A i \in 1..Len(outputs) : Kind(outputs[i]) \in {"diagnostic", "error"}
             /\ \A i, j \in 1..Len(outputs) : i < j => Rank(outputs[i]) <= Rank(outputs[j]))
  /\ [](call = "eval" /\ pc \in {"loop", "rolled", "finish", "returned"}
          => \A i \in 1..Len(outputs) :
               Kind(outputs[i]) = "diagnostic" => FromCommitted(outputs[i]))

\* an eval that returned failure with the diagnostic of a committed sentence
\* and the two errors of its last attempt, after the process had written a
\* message for a Status that was rolled back
C19_Witness ==
  /\ EvalReturned
  /\ ~code_evaluated
  /\ Len(outputs) >= 2
  /\ Kind(outputs[1]) = "diagnostic"
  /\ Kind(LastOf(outputs)) = "error"
  /\ \E i \in 1..Len(out_of_band_status_replies) : _is_message(out_of_band_status_replies[i])

\* C20: a step that sends Edit_at, in roll_back_to called on its own or from
\* eval, changes tip only when the reply is good, and then to the state id
\* the command carried; on a fail reply it raises and tip stays as it was;
\* nothing else of the session or of the frame of the call changes.
C20_RollBackAssignsAfterGoodReply ==
  [][(cmds' # cmds /\ cmds' # <<>> /\ LastOf(cmds').cmd = "Edit_at")
       => LET reply  == executed'.result.reply
              target == LastOf(cmds').state_id
          IN  /\ executed'.command = LastOf(cmds')
              /\ ~executed'.allow_fail
              /\ reply.val = "fail" => (pc' = "raised" /\ tip' = tip /\ edited' = edited)
              /\ reply.val = "good" => (pc' \in {"returned", "rolled"} /\ tip' = target)
              /\ pc' = "raised" => reply.val = "fail"
              /\ UNCHANGED <<locals, committed>>]_vars

\* roll_back_to called on its own, answered fail: it raised and tip is not
\* the state id it was called with
C20_Witness ==
  /\ call = "roll_back_to"
  /\ pc = "raised"
  /\ executed.command.cmd = "Edit_at"
  /\ executed.command.state_id # tip

====
